---------------------------- MODULE Spec2Model ----------------------------
(***************************************************************************)
(* Global Prosperity Barometer: the page renderer (js/app.js), the country *)
(* selector (js/country-selector.js) and the Data / I18n facades they call. *)
(*                                                                         *)
(* The Data and I18n modules are not part of the sources at hand; their    *)
(* operations are modelled from the written specification of the data      *)
(* layer (sections 3, 4 and 7) and are marked as such where defined.       *)
(***************************************************************************)
EXTENDS Integers, Sequences, FiniteSets, TLC

(***************************************************************************)
(* The state of the page.                                                  *)
(***************************************************************************)
VARIABLES
  location,      \* window.location and the scripts loaded: [path, id, chart]
  dataState,     \* Data.init: "unloaded", "loading", "ready" or "failed"
  store,         \* the dataset Data holds
  loads,         \* how many times the dataset was fetched
  i18nState,     \* I18n.init: "unloaded", "loading" or "ready"
  lang,          \* the active language
  names,         \* the table of localized country names
  pc,            \* the DOMContentLoaded handler: "init", "awaitData",
                 \* "awaitI18n", "listening" or "rejected"
  page,          \* the page kind the handler detected ("" before it did)
  dom,           \* the content of each container of the document
  title,         \* document.title
  _econCharts,   \* the chart instances tracked for cleanup (their canvases)
  liveCharts,    \* the chart instances created and not destroyed
  sel,           \* the country selector: [inited, open, search, list]
  earlyRead,     \* a view queried the store before Data.init completed
  lastQuery,     \* the outcome of the last query made on the facade directly
  errorVisible,  \* the page shows an error message to the user
  rerendered     \* the gpb-lang-change listener of app.js has run

vars ==
  <<location, dataState, store, loads, i18nState, lang, names, pc, page, dom,
    title, _econCharts, liveCharts, sel, earlyRead, lastQuery, errorVisible, rerendered>>

(***************************************************************************)
(* Bounds of the model.                                                    *)
(***************************************************************************)
MaxCountries == 2

(***************************************************************************)
(* Identifiers and small value sets the datasets are drawn from.           *)
(***************************************************************************)
IdNames == <<"c1", "c2", "c3", "c4">>
CountryIds == {IdNames[i] : i \in 1..MaxCountries}
IndexOf(id) == CHOOSE i \in 1..Len(IdNames) : IdNames[i] = id

PillarIds == <<"governance", "security">>
PillarSet == {PillarIds[i] : i \in 1..Len(PillarIds)}

Langs == {"en", "fr"}

\* Pillar scores are integers 0..100; these values give exact means, means
\* ending in .5 and the two ends of the range.
ScoreVals == {0, 99, 100}

RegimeKeys == <<"full_democracy", "flawed_democracy", "hybrid_regime", "authoritarian">>
RegimeSet == {RegimeKeys[i] : i \in 1..Len(RegimeKeys)}
StatusKeys == <<"peace", "tension", "minor_conflict", "major_conflict", "war">>
StatusSet == {StatusKeys[i] : i \in 1..Len(StatusKeys)}
SystemSet == {"republic", "monarchy"}

EmptyFn == [x \in {} |-> 0]

(***************************************************************************)
(* Strings: a name is a sequence of characters over a small alphabet with  *)
(* both cases.                                                             *)
(***************************************************************************)
Lower(ch) == CASE ch = "A" -> "a" [] ch = "B" -> "b" [] OTHER -> ch
toLowerCase(s) == [i \in 1..Len(s) |-> Lower(s[i])]
PrimaryWeight(ch) == IF Lower(ch) = "a" THEN 1 ELSE 2
TertiaryWeight(ch) == IF ch \in {"A", "B"} THEN 1 ELSE 0

RECURSIVE CmpSeq(_, _)
CmpSeq(a, b) ==
  IF a = <<>> THEN (IF b = <<>> THEN 0 ELSE -1)
  ELSE IF b = <<>> THEN 1
  ELSE IF Head(a) < Head(b) THEN -1
  ELSE IF Head(a) > Head(b) THEN 1
  ELSE CmpSeq(Tail(a), Tail(b))

\* String.prototype.localeCompare: the letters decide first, case only
\* between names with the same letters (lower case first).
localeCompare(a, b) ==
  LET p == CmpSeq([i \in 1..Len(a) |-> PrimaryWeight(a[i])],
                  [i \in 1..Len(b) |-> PrimaryWeight(b[i])])
  IN IF p # 0 THEN p
     ELSE CmpSeq([i \in 1..Len(a) |-> TertiaryWeight(a[i])],
                 [i \in 1..Len(b) |-> TertiaryWeight(b[i])])

\* String.prototype.includes
includes(s, q) ==
  \E i \in 0..(Len(s) - Len(q)) : \A j \in 1..Len(q) : s[i + j] = q[j]

(***************************************************************************)
(* Numbers.                                                                *)
(***************************************************************************)
\* Math.round(num / den) for num >= 0, den > 0: halves round up.
MathRound(num, den) == (2 * num + den) \div (2 * den)

RECURSIVE SumOver(_, _)
SumOver(f, S) ==
  IF S = {} THEN 0
  ELSE LET k == CHOOSE k \in S : TRUE IN f[k] + SumOver(f, S \ {k})

RECURSIVE SumSeq(_)
SumSeq(s) == IF s = <<>> THEN 0 ELSE Head(s) + SumSeq(Tail(s))

\* Array.prototype.filter on a sequence, by membership of the element in T.
RECURSIVE FilterSeq(_, _)
FilterSeq(s, T) ==
  IF s = <<>> THEN <<>>
  ELSE IF Head(s) \in T THEN <<Head(s)>> \o FilterSeq(Tail(s), T)
  ELSE FilterSeq(Tail(s), T)


(***************************************************************************)
(* The dataset (section 3 of the data-layer specification).                *)
(*   country:   [id, name, scores], scores a map from some pillar ids to   *)
(*              integers 0..100                                            *)
(*   economics: map from some country ids to an EconomicsRecord; money in  *)
(*              whole units, percentages in tenths of a percent            *)
(*   politics:  map from some country ids to a PoliticsRecord              *)
(* Maps keyed by country id are iterated in declaration order.             *)
(***************************************************************************)
EmptyStore ==
  [countries |-> <<>>, pillars |-> <<>>, economics |-> EmptyFn, politics |-> EmptyFn]

AllScores == UNION {[S -> ScoreVals] : S \in SUBSET PillarSet}

EconRecords ==
  { [gdp |-> 450, gdp_per_capita |-> 1249, gni_per_capita |-> 900,
     inflation |-> 25, unemployment |-> 70, public_debt_pct |-> 601],
    [gdp |-> 1600, gdp_per_capita |-> 750, gni_per_capita |-> 2000,
     inflation |-> 30, unemployment |-> 45, public_debt_pct |-> 1200] }

PolRecords ==
  {[regime |-> r, system |-> IF r = "authoritarian" THEN "monarchy" ELSE "republic",
    conflict_status |-> c] : r \in RegimeSet, c \in {"peace", "war"}}

\* A store of n countries from per-country payloads p[1..n]:
\* [name, scores, econ, pol], econ and pol holding zero or one record.
MkStore(n, p) ==
  [countries |-> [i \in 1..n |->
                    [id |-> IdNames[i], name |-> p[i].name, scores |-> p[i].scores]],
   pillars   |-> PillarIds,
   economics |-> [id \in {IdNames[i] : i \in {j \in 1..n : p[j].econ # <<>>}} |->
                    p[IndexOf(id)].econ[1]],
   politics  |-> [id \in {IdNames[i] : i \in {j \in 1..n : p[j].pol # <<>>}} |->
                    p[IndexOf(id)].pol[1]]]

StoresOf(Payloads) ==
  UNION {{MkStore(n, p) : p \in [1..n -> Payloads]} : n \in 0..MaxCountries}

FullScores == [p \in PillarSet |-> 99]
SomePol == [regime |-> "flawed_democracy", system |-> "republic", conflict_status |-> "peace"]
SomeEcon == CHOOSE e \in EconRecords : e.gdp = 450

\* Datasets that vary the pillar scores and the names.
ScorePayloads ==
  {[name |-> nm, scores |-> sc, econ |-> <<>>, pol |-> <<>>] :
     nm \in {<<"a">>}, sc \in AllScores}
\* Datasets that vary the politics records.
PolPayloads ==
  {[name |-> <<"a">>, scores |-> FullScores, econ |-> <<>>, pol |-> q] :
     q \in {<<>>} \cup {<<r>> : r \in PolRecords}}
\* Datasets that vary the economics records.
EconPayloads ==
  {[name |-> <<"a">>, scores |-> FullScores, econ |-> e, pol |-> <<>>] :
     e \in {<<>>} \cup {<<r>> : r \in EconRecords}}
\* Datasets of the page as a whole: a little of everything.
PagePayloads ==
  { [name |-> <<"a">>, scores |-> EmptyFn, econ |-> <<>>, pol |-> <<>>],
    [name |-> <<"A", "b">>, scores |-> [p \in {"governance"} |-> 100],
     econ |-> <<SomeEcon>>, pol |-> <<SomePol>>],
    [name |-> <<"B">>, scores |-> FullScores, econ |-> <<SomeEcon>>, pol |-> <<>>] }

\* Datasets of as many countries as there are ids, each with a politics
\* record, that vary the form of government.
SystemLabels == <<"republic", "monarchy", "federation", "theocracy">>
SystemPayloads ==
  {[name |-> <<"a">>, scores |-> FullScores, econ |-> <<>>,
    pol |-> <<[regime |-> "flawed_democracy", system |-> SystemLabels[k],
               conflict_status |-> "peace"]>>] : k \in 1..Len(SystemLabels)}
SystemStores ==
  {MkStore(Len(IdNames), p) : p \in [1..Len(IdNames) -> SystemPayloads]}

ScoreStores == StoresOf(ScorePayloads)
PolStores == StoresOf(PolPayloads)
EconStores == StoresOf(EconPayloads)
PageStores == StoresOf(PagePayloads)
AggregateStores == ScoreStores \cup PolStores \cup EconStores

(***************************************************************************)
(* I18n: the active language and the table of localized country names.     *)
(* getCountryName prefers the name localized for the active language and   *)
(* falls back to the record's default name (section 6).                    *)
(***************************************************************************)
FrNames == <<(<<"b">>), (<<"a">>), (<<"A">>), (<<"a", "b">>)>>
NameTables ==
  { [l \in Langs |-> EmptyFn],
    [l \in Langs |-> IF l = "fr" THEN [id \in CountryIds |-> FrNames[IndexOf(id)]]
                     ELSE EmptyFn],
    [l \in Langs |-> IF l = "fr" THEN [id \in {"c1"} |-> FrNames[1]] ELSE EmptyFn] }

getCountryName(c, tbl, lg) ==
  IF c.id \in DOMAIN tbl[lg] THEN tbl[lg][c.id] ELSE c.name

(***************************************************************************)
(* Data: the query facade and the aggregation engine (sections 4.1-4.3).   *)
(* A lookup returns a sequence holding the record, or the empty sequence   *)
(* when there is none.                                                     *)
(***************************************************************************)
getAllCountries(s) == s.countries
getPillars(s) == s.pillars
getAllPolitics(s) == s.politics
CountryIdsOf(s) == {s.countries[i].id : i \in 1..Len(s.countries)}

getCountry(s, id) ==
  LET hit == {i \in 1..Len(s.countries) : s.countries[i].id = id}
  IN IF hit = {} THEN <<>> ELSE <<s.countries[CHOOSE i \in hit : TRUE]>>

getPillar(s, id) ==
  IF \E i \in 1..Len(s.pillars) : s.pillars[i] = id THEN <<id>> ELSE <<>>

getEconomics(s, id) ==
  IF id \in DOMAIN s.economics THEN <<s.economics[id]>> ELSE <<>>

getPolitics(s, id) ==
  IF id \in DOMAIN s.politics THEN <<s.politics[id]>> ELSE <<>>

\* country.scores[p] || 0
ScoreOr0(c, p) == IF p \in DOMAIN c.scores THEN c.scores[p] ELSE 0

\* Mean of the pillar scores present, rounded; 0 for a country with none.
getOverallScore(c) ==
  LET n == Cardinality(DOMAIN c.scores)
  IN IF n = 0 THEN 0 ELSE MathRound(SumOver(c.scores, DOMAIN c.scores), n)

\* Per pillar, the rounded mean over the countries that have a score for it;
\* 0 for a pillar no country scores.
getGlobalAverages(s) ==
  [p \in {s.pillars[i] : i \in 1..Len(s.pillars)} |->
     LET with == {i \in 1..Len(s.countries) : p \in DOMAIN s.countries[i].scores}
         sc == [i \in with |-> s.countries[i].scores[p]]
     IN IF with = {} THEN 0 ELSE MathRound(SumOver(sc, with), Cardinality(with))]

\* The comparator of the ranking: score descending, then localized name
\* ascending.
RankBefore(a, b) ==
  \/ a.score > b.score
  \/ a.score = b.score /\ localeCompare(a.name, b.name) < 0

\* A stable sort by insertion: e goes before the first entry it precedes.
RECURSIVE InsertRanked(_, _)
InsertRanked(sorted, e) ==
  IF sorted = <<>> THEN <<e>>
  ELSE IF RankBefore(e, Head(sorted)) THEN <<e>> \o sorted
  ELSE <<Head(sorted)>> \o InsertRanked(Tail(sorted), e)

RECURSIVE SortRanked(_)
SortRanked(entries) ==
  IF entries = <<>> THEN <<>>
  ELSE InsertRanked(SortRanked(SubSeq(entries, 1, Len(entries) - 1)),
                    entries[Len(entries)])

RankScore(c, pillarId) ==
  IF pillarId = "overall" THEN getOverallScore(c) ELSE ScoreOr0(c, pillarId)

getRanking(s, pillarId, tbl, lg) ==
  SortRanked([i \in 1..Len(s.countries) |->
                [id    |-> s.countries[i].id,
                 name  |-> getCountryName(s.countries[i], tbl, lg),
                 score |-> RankScore(s.countries[i], pillarId)]])

(***************************************************************************)
(* app.js: what each render function writes into its container.  A         *)
(* container's content is a record of the values shown; every label comes  *)
(* from I18n.t, so the content carries the language it was rendered in.    *)
(***************************************************************************)
\* Object.values / Object.entries of the politics map, in declaration order.
PoliticsIdsOf(s) == FilterSeq(IdNames, DOMAIN getAllPolitics(s))
PoliticsEntries(s) ==
  LET ids == PoliticsIdsOf(s) IN [i \in 1..Len(ids) |-> getAllPolitics(s)[ids[i]]]

\* As RegimeTally, with "= 1" where the code has "+ 1".
RegimeTallyNoIncrement(entries) ==
  [k \in RegimeSet \cup {entries[i].regime : i \in 1..Len(entries)} |->
     IF \E i \in 1..Len(entries) : entries[i].regime = k THEN 1 ELSE 0]

\* As RegimeTally, with the counts kept from one render to the next
\* instead of starting at 0.
RegimeTallyAccumulating(entries) ==
  [k \in RegimeSet \cup {entries[i].regime : i \in 1..Len(entries)} |->
     Cardinality({i \in 1..Len(entries) : entries[i].regime = k})
     + (IF /\ "governance-bar" \in DOMAIN dom
           /\ dom["governance-bar"].kind = "governance"
           /\ k \in RegimeSet
        THEN dom["governance-bar"].regimes[CHOOSE i \in 1..Len(RegimeKeys) :
                                             RegimeKeys[i] = k].count
        ELSE 0)]

\* regimes: the four categories start at 0, each record adds 1 to its own.
RegimeTally(entries) ==
  [k \in RegimeSet \cup {entries[i].regime : i \in 1..Len(entries)} |->
     Cardinality({i \in 1..Len(entries) : entries[i].regime = k})]

SystemTally(entries) ==
  [k \in {entries[i].system : i \in 1..Len(entries)} |->
     Cardinality({i \in 1..Len(entries) : entries[i].system = k})]

\* The keys of systems, in the order the records first name them.
RECURSIVE SystemKeys(_)
SystemKeys(entries) ==
  IF entries = <<>> THEN <<>>
  ELSE LET rest == SystemKeys(SubSeq(entries, 1, Len(entries) - 1))
           k == entries[Len(entries)].system
       IN IF \E i \in 1..Len(rest) : rest[i] = k THEN rest ELSE Append(rest, k)

RECURSIVE InsertByCount(_, _, _)
InsertByCount(sorted, k, tally) ==
  IF sorted = <<>> THEN <<k>>
  ELSE IF tally[Head(sorted)] - tally[k] < 0 THEN <<k>> \o sorted
  ELSE <<Head(sorted)>> \o InsertByCount(Tail(sorted), k, tally)

RECURSIVE SortByCount(_, _)
SortByCount(keys, tally) ==
  IF keys = <<>> THEN <<>>
  ELSE InsertByCount(SortByCount(SubSeq(keys, 1, Len(keys) - 1), tally),
                     keys[Len(keys)], tally)

\* Array.prototype.slice(0, n)
SliceTo(s, n) == SubSeq(s, 1, IF Len(s) < n THEN Len(s) ELSE n)

TopSystems(entries) ==
  LET tally == SystemTally(entries)
      top == SliceTo(SortByCount(SystemKeys(entries), tally), 4)
  IN [i \in 1..Len(top) |-> [system |-> top[i], count |-> tally[top[i]]]]

renderGovernanceBar(s, tbl, lg) ==
  LET entries == PoliticsEntries(s)
      regimes == RegimeTally(entries)
      total == Len(entries)
  IN IF total = 0 THEN [kind |-> "empty"]
     ELSE [kind    |-> "governance",
           lang    |-> lg,
           total   |-> total,
           regimes |-> [i \in 1..Len(RegimeKeys) |->
                          [regime |-> RegimeKeys[i],
                           count  |-> regimes[RegimeKeys[i]],
                           pct    |-> MathRound(regimes[RegimeKeys[i]] * 1000, total)]],
           systems |-> TopSystems(entries)]

\* Math.round(sum of (c.scores[p] || 0) over all countries / countries.length)
AvgOverAllCountries(s, p) ==
  LET cs == getAllCountries(s)
  IN MathRound(SumSeq([i \in 1..Len(cs) |-> ScoreOr0(cs[i], p)]), Len(cs))

NameList(ns) ==
  IF Len(ns) <= 4 THEN [shown |-> ns, more |-> 0]
  ELSE [shown |-> SubSeq(ns, 1, 3), more |-> Len(ns) - 3]

renderPeaceBar(s, tbl, lg) ==
  LET ids == PoliticsIdsOf(s)
      conflicts == [k \in StatusSet |->
                      FilterSeq(ids, {id \in DOMAIN s.politics :
                                        s.politics[id].conflict_status = k})]
      shownKeys == FilterSeq(StatusKeys, {k \in StatusSet : Len(conflicts[k]) > 0})
      nameOf(id) == LET c == getCountry(s, id)
                    IN IF c # <<>> THEN getCountryName(c[1], tbl, lg) ELSE <<id>>
  IN IF Len(ids) = 0 THEN [kind |-> "empty"]
     ELSE [kind          |-> "peace",
           lang          |-> lg,
           atPeace       |-> Len(conflicts["peace"]),
           inConflict    |-> Len(ids) - Len(conflicts["peace"]),
           avgSecurity   |-> AvgOverAllCountries(s, "security"),
           avgGovernance |-> AvgOverAllCountries(s, "governance"),
           rows          |-> [i \in 1..Len(shownKeys) |->
                                [status |-> shownKeys[i],
                                 count  |-> Len(conflicts[shownKeys[i]]),
                                 names  |-> NameList([j \in 1..Len(conflicts[shownKeys[i]]) |->
                                              nameOf(conflicts[shownKeys[i]][j])])]]]

\* countries.map(c => Data.getEconomics(c.id)).filter(Boolean)
AllEcon(s) ==
  LET cs == getAllCountries(s)
      ids == FilterSeq([i \in 1..Len(cs) |-> cs[i].id],
                       {id \in CountryIdsOf(s) : getEconomics(s, id) # <<>>})
  IN [i \in 1..Len(ids) |-> getEconomics(s, ids[i])[1]]

\* As EconCount, counting every country (countries.length).
EconCountAllCountries(s) == Len(getAllCountries(s))

\* The denominator of the economic means.
EconCount(s) == Len(AllEcon(s))

\* The aggregates of renderGlobalEconBar; the means in tenths (toFixed(1)),
\* the mean GDP per capita rounded to a whole number.
EconAggregates(s) ==
  LET allEcon == AllEcon(s)
      n == EconCount(s)
      total(f(_)) == SumSeq([i \in 1..Len(allEcon) |-> f(allEcon[i])])
  IN [totalGdp        |-> total(LAMBDA e : e.gdp),
      avgInflation    |-> MathRound(total(LAMBDA e : e.inflation), n),
      avgUnemployment |-> MathRound(total(LAMBDA e : e.unemployment), n),
      avgDebt         |-> MathRound(total(LAMBDA e : e.public_debt_pct), n),
      avgGdpCap       |-> MathRound(total(LAMBDA e : e.gdp_per_capita), n)]

\* (v / 1000).toFixed(1), in tenths
Thousands(v) == MathRound(v, 100)
fmtT(v) == [unit |-> "T", tenths |-> Thousands(v)]
fmtK(v) == IF v >= 1000 THEN [unit |-> "K", tenths |-> Thousands(v)]
           ELSE [unit |-> "", whole |-> v]
fmtB(v) == IF v >= 1000 THEN [unit |-> "T", tenths |-> Thousands(v)]
           ELSE [unit |-> "B", whole |-> v]

renderGlobalEconBar(s, tbl, lg) ==
  IF Len(AllEcon(s)) = 0 THEN [kind |-> "empty"]
  ELSE LET a == EconAggregates(s)
       IN [kind            |-> "global_econ",
           lang            |-> lg,
           gdp_total       |-> fmtT(a.totalGdp),
           avg_gdp_capita  |-> fmtK(a.avgGdpCap),
           avg_inflation   |-> a.avgInflation,
           avg_unemployment |-> a.avgUnemployment,
           avg_debt        |-> a.avgDebt]

\* As CardAvg, averaging over every country as the peace bar does.
CardAvgAllCountries(s, p) ==
  LET cs == getAllCountries(s)
  IN IF Len(cs) = 0 THEN 0
     ELSE MathRound(SumSeq([i \in 1..Len(cs) |-> ScoreOr0(cs[i], p)]), Len(cs))

\* avgs[p.id] || 0
CardAvg(s, p) ==
  LET avgs == getGlobalAverages(s) IN IF p \in DOMAIN avgs THEN avgs[p] ELSE 0

renderOverviewCards(s, tbl, lg) ==
  LET ps == SliceTo(getPillars(s), 6)
  IN [kind  |-> "overview_cards",
      lang  |-> lg,
      cards |-> [i \in 1..Len(ps) |-> [id |-> ps[i], avg |-> CardAvg(s, ps[i])]]]

renderPillarCards(s, tbl, lg) ==
  LET ps == getPillars(s)
  IN [kind  |-> "pillar_cards",
      lang  |-> lg,
      cards |-> [i \in 1..Len(ps) |-> [id |-> ps[i], avg |-> CardAvg(s, ps[i])]]]

\* As RankOf, without the "+ 1".
RankOfZeroBased(ranking, id) ==
  LET hit == {i \in 1..Len(ranking) : ranking[i].id = id}
  IN IF hit = {} THEN -1 ELSE (CHOOSE i \in hit : \A j \in hit : i <= j) - 1

\* ranking.findIndex(r => r.id === id) + 1
RankOf(ranking, id) ==
  LET hit == {i \in 1..Len(ranking) : ranking[i].id = id}
  IN IF hit = {} THEN 0 ELSE CHOOSE i \in hit : \A j \in hit : i <= j

\* As CountryOverall, dividing by the number of pillars of the dataset.
CountryOverallAllPillars(country) ==
  MathRound(SumSeq([i \in 1..Len(PillarIds) |-> ScoreOr0(country, PillarIds[i])]),
            Len(PillarIds))

\* The overall score the country page shows.
CountryOverall(country) == getOverallScore(country)

\* renderCountry, without the economic dashboard it ends with.
renderCountryContent(s, tbl, lg, id) ==
  LET found == getCountry(s, id)
  IN IF found = <<>> THEN [kind |-> "not_found", lang |-> lg]
     ELSE LET country == found[1]
              ranking == getRanking(s, "overall", tbl, lg)
              ps == getPillars(s)
          IN [kind    |-> "country",
              lang    |-> lg,
              name    |-> getCountryName(country, tbl, lg),
              overall |-> CountryOverall(country),
              rank    |-> RankOf(ranking, id),
              ranked  |-> Len(ranking),
              bars    |-> [i \in 1..Len(ps) |->
                             [id |-> ps[i], score |-> ScoreOr0(country, ps[i])]]]

\* As renderEconomicDashboardContent, with a record of zeros standing in
\* for a missing EconomicsRecord instead of the early return.
EconDashboardZeroRecord(s, tbl, lg, country) ==
  LET found == getEconomics(s, country.id)
      econ == IF found = <<>>
              THEN <<[gdp |-> 0, gdp_per_capita |-> 0, gni_per_capita |-> 0,
                      inflation |-> 0, unemployment |-> 0, public_debt_pct |-> 0]>>
              ELSE found
  IN [kind           |-> "econ_dashboard",
      lang           |-> lg,
      gdp            |-> fmtB(econ[1].gdp),
      gdp_per_capita |-> fmtK(econ[1].gdp_per_capita),
      public_debt    |-> econ[1].public_debt_pct,
      unemployment   |-> econ[1].unemployment,
      inflation      |-> econ[1].inflation,
      gni_per_capita |-> fmtK(econ[1].gni_per_capita),
      canvases       |-> <<"chart-revenue", "chart-expenditure">>]

\* The part of renderEconomicDashboard that fills #econ-dashboard.
renderEconomicDashboardContent(s, tbl, lg, country) ==
  LET econ == getEconomics(s, country.id)
  IN IF econ = <<>> THEN [kind |-> "empty"]
     ELSE [kind           |-> "econ_dashboard",
           lang           |-> lg,
           gdp            |-> fmtB(econ[1].gdp),
           gdp_per_capita |-> fmtK(econ[1].gdp_per_capita),
           public_debt    |-> econ[1].public_debt_pct,
           unemployment   |-> econ[1].unemployment,
           inflation      |-> econ[1].inflation,
           gni_per_capita |-> fmtK(econ[1].gni_per_capita),
           canvases       |-> <<"chart-revenue", "chart-expenditure">>]

\* params.get('id') || 'overall'
PillarParam(id) == IF id = "" THEN "overall" ELSE id

\* As PillarRows, always asking for the overall ranking.
PillarRowsAlwaysOverall(s, tbl, lg, id) ==
  LET ranking == getRanking(s, "overall", tbl, lg)
  IN [i \in 1..Len(ranking) |->
        [rank  |-> i,
         id    |-> ranking[i].id,
         name  |-> getCountryName([id |-> ranking[i].id, name |-> ranking[i].name],
                                  tbl, lg),
         score |-> ranking[i].score]]

\* The rows of the ranking table the pillar page shows.
PillarRows(s, tbl, lg, id) ==
  LET ranking == getRanking(s, id, tbl, lg)
  IN [i \in 1..Len(ranking) |->
        [rank  |-> i,
         id    |-> ranking[i].id,
         name  |-> getCountryName([id |-> ranking[i].id, name |-> ranking[i].name],
                                  tbl, lg),
         score |-> ranking[i].score]]

renderPillarContent(s, tbl, lg, param) ==
  LET id == PillarParam(param)
      pillar == getPillar(s, id)
      ps == getPillars(s)
  IN [kind    |-> "pillar",
      lang    |-> lg,
      heading |-> IF pillar # <<>> THEN pillar[1] ELSE "ranking.all_pillars",
      desc    |-> pillar # <<>>,
      active  |-> (IF id = "overall" THEN {"overall"} ELSE {})
                  \cup {ps[i] : i \in {j \in 1..Len(ps) : ps[j] = id}},
      rows    |-> PillarRows(s, tbl, lg, id),
      sources |-> pillar # <<>>]

(***************************************************************************)
(* country-selector.js: the list of the dropdown.                          *)
(***************************************************************************)
RECURSIVE InsertByName(_, _)
InsertByName(sorted, e) ==
  IF sorted = <<>> THEN <<e>>
  ELSE IF localeCompare(e.name, Head(sorted).name) < 0 THEN <<e>> \o sorted
  ELSE <<Head(sorted)>> \o InsertByName(Tail(sorted), e)

RECURSIVE SortByName(_)
SortByName(items) ==
  IF items = <<>> THEN <<>>
  ELSE InsertByName(SortByName(SubSeq(items, 1, Len(items) - 1)), items[Len(items)])

\* The score badge of a list entry.
BadgeScore(c) == getOverallScore(c)

\* _renderList: one link per country, sorted by displayed name, all shown.
RenderedList(s, tbl, lg) ==
  LET cs == getAllCountries(s)
  IN SortByName([i \in 1..Len(cs) |->
                   [id      |-> cs[i].id,
                    name    |-> getCountryName(cs[i], tbl, lg),
                    score   |-> BadgeScore(cs[i]),
                    visible |-> TRUE]])

\* _filter: a link is shown when its lower-cased name includes the
\* lower-cased text of the search input.
FilteredList(list, q) ==
  [i \in 1..Len(list) |->
     [list[i] EXCEPT !.visible = includes(toLowerCase(list[i].name), toLowerCase(q))]]

SearchVals == {<<>>, <<"a">>, <<"B">>}

(***************************************************************************)
(* The page: its location, the elements its document holds, and whether    *)
(* the chart library is loaded.                                            *)
(***************************************************************************)
Locations ==
  {[path |-> p, id |-> "", chart |-> TRUE] :
     p \in {<<>>, <<"index.html">>, <<"about.html">>}}
  \cup {[path |-> <<"country.html">>, id |-> i, chart |-> ch] :
          i \in {"", "zz"} \cup CountryIds, ch \in BOOLEAN}
  \cup {[path |-> <<"pillar.html">>, id |-> i, chart |-> TRUE] :
          i \in {"", "overall", "zz"} \cup PillarSet}
  \cup {[path |-> <<"country.html", "pillar.html">>, id |-> "c1", chart |-> TRUE]}

\* The locations the aggregates are exercised at: one page of each kind.
AggregateLocations ==
  { [path |-> <<"index.html">>, id |-> "", chart |-> TRUE],
    [path |-> <<"country.html">>, id |-> "c1", chart |-> TRUE],
    [path |-> <<"pillar.html">>, id |-> "", chart |-> TRUE] }

PathIncludes(path, file) == \E i \in 1..Len(path) : path[i] = file

\* A path ending in "/" is the empty sequence of segments.
detectPage(path) ==
  IF PathIncludes(path, "country.html") THEN "country"
  ELSE IF PathIncludes(path, "pillar.html") THEN "pillar"
  ELSE IF PathIncludes(path, "index.html") \/ path = <<>> THEN "index"
  ELSE "index"

IndexContainers ==
  {"governance-bar", "peace-bar", "global-econ-bar", "overview-cards", "pillar-cards"}

PageContainers(pg) ==
  CASE pg = "index" -> IndexContainers
    [] pg = "country" -> {"country-content"}
    [] pg = "pillar" -> {"pillar-content"}
    [] OTHER -> {}

\* The containers of the document served at the path (its last segment).
HtmlElements(path) ==
  LET file == IF path = <<>> THEN "index.html" ELSE path[Len(path)]
  IN CASE file = "index.html" -> IndexContainers \cup {"country-selector"}
       [] file = "country.html" -> {"country-content", "country-selector"}
       [] file = "pillar.html" -> {"pillar-content", "country-selector"}
       [] OTHER -> {}

Static == [kind |-> "static"]

InitialDom(loc) == [el \in HtmlElements(loc.path) \ {"country-selector"} |-> Static]

InitAt(Locs) ==
  /\ location \in Locs
  /\ dataState = "unloaded"
  /\ store = EmptyStore
  /\ loads = 0
  /\ i18nState = "unloaded"
  /\ lang = "en"
  /\ names = [l \in Langs |-> EmptyFn]
  /\ pc = "init"
  /\ page = ""
  /\ dom = InitialDom(location)
  /\ title = Static
  /\ _econCharts = <<>>
  /\ liveCharts = 0
  /\ sel = [inited |-> FALSE, open |-> FALSE, search |-> <<>>, list |-> <<>>]
  /\ earlyRead = FALSE
  /\ lastQuery = "none"
  /\ errorVisible = FALSE
  /\ rerendered = FALSE

Init == InitAt(Locations)

(***************************************************************************)
(* Rendering: each render function returns at once when its container is   *)
(* missing, and otherwise replaces the container's whole content.          *)
(***************************************************************************)
\* As SetContent, with "innerHTML +=" where the code has "innerHTML =".
AppendContent(d, el, content) ==
  IF el \in DOMAIN d
  THEN [d EXCEPT ![el] = [kind |-> "appended", before |-> d[el], after |-> content]]
  ELSE d

SetContent(d, el, content) == IF el \in DOMAIN d THEN [d EXCEPT ![el] = content] ELSE d

renderIndex(d, lg) ==
  LET d1 == SetContent(d, "governance-bar", renderGovernanceBar(store, names, lg))
      d2 == SetContent(d1, "peace-bar", renderPeaceBar(store, names, lg))
      d3 == SetContent(d2, "global-econ-bar", renderGlobalEconBar(store, names, lg))
      d4 == SetContent(d3, "overview-cards", renderOverviewCards(store, names, lg))
  IN SetContent(d4, "pillar-cards", renderPillarCards(store, names, lg))

\* As ChartsAfter, without the loop that destroys the tracked instances:
\* the list is emptied and the old instances stay alive.
ChartsAfterNoDestroy(charts, live, hasEcon) ==
  IF ~hasEcon THEN [charts |-> charts, live |-> live]
  ELSE IF location.chart
       THEN [charts |-> <<"chart-revenue", "chart-expenditure">>, live |-> live + 2]
       ELSE [charts |-> <<>>, live |-> live]

\* renderEconomicDashboard's chart bookkeeping: with a record, the tracked
\* instances are destroyed and, when the chart library is loaded, two new
\* ones are created.
ChartsAfter(charts, live, hasEcon) ==
  IF ~hasEcon THEN [charts |-> charts, live |-> live]
  ELSE IF location.chart
       THEN [charts |-> <<"chart-revenue", "chart-expenditure">>,
             live   |-> live - Len(charts) + 2]
       ELSE [charts |-> <<>>, live |-> live - Len(charts)]

\* The page after renderIndex / renderCountry / renderPillar ran on it with
\* lg the active language.
Rendered(pg, d, ttl, charts, live, lg) ==
  LET same == [dom |-> d, title |-> ttl, charts |-> charts, live |-> live]
  IN CASE pg = "index" -> [same EXCEPT !.dom = renderIndex(d, lg)]
       [] pg = "country" ->
            IF "country-content" \notin DOMAIN d THEN same
            ELSE LET content == renderCountryContent(store, names, lg, location.id)
                     found == getCountry(store, location.id)
                 IN IF found = <<>>
                    THEN [same EXCEPT !.dom = SetContent(d, "country-content", content)]
                    ELSE LET dash == renderEconomicDashboardContent(store, names, lg, found[1])
                             ch == ChartsAfter(charts, live, dash.kind # "empty")
                         IN [dom    |-> SetContent(d, "country-content",
                                          [kind |-> "country", main |-> content,
                                           dashboard |-> dash]),
                             title  |-> [name |-> content.name],
                             charts |-> ch.charts,
                             live   |-> ch.live]
       [] pg = "pillar" ->
            IF "pillar-content" \notin DOMAIN d THEN same
            ELSE LET content == renderPillarContent(store, names, lg, location.id)
                 IN [same EXCEPT !.dom = SetContent(d, "pillar-content", content),
                                 !.title = [heading |-> content.heading, lang |-> lg]]
       [] OTHER -> same

\* Whether rendering the page queries the facade (a container is there).
RenderQueries(pg) == PageContainers(pg) \cap DOMAIN dom # {}

(***************************************************************************)
(* The DOMContentLoaded handler of app.js.                                 *)
(***************************************************************************)
\* document dispatches DOMContentLoaded: the handler calls Data.init().
DOMContentLoaded ==
  /\ pc = "init"
  /\ dataState = "unloaded"
  /\ pc' = "awaitData"
  /\ dataState' = "loading"
  /\ loads' = loads + 1
  /\ UNCHANGED <<location, store, i18nState, lang, names, page, dom, title,
                 _econCharts, liveCharts, sel, earlyRead, lastQuery, errorVisible, rerendered>>

\* Data.init() completes: the store holds the dataset fetched.
DataInitResolve(Datasets) ==
  /\ dataState = "loading"
  /\ dataState' = "ready"
  /\ store' \in Datasets
  /\ UNCHANGED <<location, loads, i18nState, lang, names, pc, page, dom, title,
                 _econCharts, liveCharts, sel, earlyRead, lastQuery, errorVisible, rerendered>>

\* Data.init() fails with DataLoadError: the dataset is unreachable or
\* malformed.
DataInitReject ==
  /\ dataState = "loading"
  /\ dataState' = "failed"
  /\ UNCHANGED <<location, store, loads, i18nState, lang, names, pc, page, dom,
                 title, _econCharts, liveCharts, sel, earlyRead, lastQuery,
                 errorVisible, rerendered>>

\* As DataInitAwaited, without the await: the handler goes on as soon as
\* Data.init() was called.
DataInitNotAwaited == dataState \in {"loading", "ready", "failed"}

\* await Data.init(): the handler goes on once the promise is fulfilled.
DataInitAwaited == dataState = "ready"

\* The handler resumes after Data.init() and calls I18n.init().
HandlerAfterData ==
  /\ pc = "awaitData"
  /\ DataInitAwaited
  /\ i18nState = "unloaded"
  /\ pc' = "awaitI18n"
  /\ i18nState' = "loading"
  /\ UNCHANGED <<location, dataState, store, loads, lang, names, page, dom, title,
                 _econCharts, liveCharts, sel, earlyRead, lastQuery, errorVisible, rerendered>>

\* await Data.init() throws the DataLoadError; the handler has no catch, so
\* its promise is rejected and nothing else of it runs.
HandlerRejected ==
  /\ pc = "awaitData"
  /\ dataState = "failed"
  /\ pc' = "rejected"
  /\ UNCHANGED <<location, dataState, store, loads, i18nState, lang, names, page,
                 dom, title, _econCharts, liveCharts, sel, earlyRead, lastQuery,
                 errorVisible, rerendered>>

\* I18n.init() completes: a language is active and its tables are loaded.
I18nInitResolve ==
  /\ i18nState = "loading"
  /\ i18nState' = "ready"
  /\ lang' \in Langs
  /\ names' \in NameTables
  /\ UNCHANGED <<location, dataState, store, loads, pc, page, dom, title,
                 _econCharts, liveCharts, sel, earlyRead, lastQuery, errorVisible, rerendered>>

\* One run of the render function of page kind pg, with lg the active
\* language.  A query made before
\* Data.init completed throws NotInitializedError: the render stops before
\* it wrote anything.
RenderPage(pg, lg) ==
  IF RenderQueries(pg) /\ dataState # "ready"
  THEN /\ earlyRead' = TRUE
       /\ UNCHANGED <<dom, title, _econCharts, liveCharts>>
  ELSE LET r == Rendered(pg, dom, title, _econCharts, liveCharts, lg)
       IN /\ dom' = r.dom
          /\ title' = r.title
          /\ _econCharts' = r.charts
          /\ liveCharts' = r.live
          /\ UNCHANGED earlyRead

\* The handler resumes after I18n.init(): it detects the page, renders it
\* and registers the gpb-lang-change listener.
HandlerRender ==
  /\ pc = "awaitI18n"
  /\ i18nState = "ready"
  /\ page' = detectPage(location.path)
  /\ RenderPage(page', lang)
  /\ pc' = IF earlyRead' /\ ~earlyRead THEN "rejected" ELSE "listening"
  /\ UNCHANGED <<location, dataState, store, loads, i18nState, lang, names, sel,
                 lastQuery, errorVisible, rerendered>>

\* As LangChangeListener, running the whole start-up again: the dataset is
\* fetched once more.
LangChangeListenerReloading ==
  /\ RenderPage(page, lang')
  /\ rerendered' = TRUE
  /\ loads' = loads + 1
  /\ UNCHANGED <<dataState, store>>

\* The gpb-lang-change listener of app.js: the page detected at startup is
\* rendered again.
LangChangeListener ==
  /\ RenderPage(page, lang')
  /\ rerendered' = TRUE
  /\ UNCHANGED <<dataState, store, loads>>

(***************************************************************************)
(* CountrySelector.                                                        *)
(***************************************************************************)
\* CountrySelector.init(), called once the dataset and the translations
\* are loaded: the dropdown is built closed, with the full list.
SelectorInit ==
  /\ "country-selector" \in HtmlElements(location.path)
  /\ ~sel.inited
  /\ dataState = "ready"
  /\ i18nState = "ready"
  /\ sel' = [inited |-> TRUE, open |-> FALSE, search |-> <<>>,
             list |-> RenderedList(store, names, lang)]
  /\ UNCHANGED <<location, dataState, store, loads, i18nState, lang, names, pc,
                 page, dom, title, _econCharts, liveCharts, earlyRead, lastQuery,
                 errorVisible, rerendered>>

\* _close
Closed(s) == [s EXCEPT !.open = FALSE]

\* As Toggle, opening the panel without emptying the search input and
\* without rendering the list again.
ToggleKeepsSearch ==
  /\ sel.inited
  /\ sel' = IF sel.open THEN Closed(sel) ELSE [sel EXCEPT !.open = TRUE]
  /\ UNCHANGED <<location, dataState, store, loads, i18nState, lang, names, pc,
                 page, dom, title, _econCharts, liveCharts, earlyRead, lastQuery,
                 errorVisible, rerendered>>

\* _toggle: a click on the button (the click does not reach the document).
Toggle ==
  /\ sel.inited
  /\ sel' = IF sel.open THEN Closed(sel)
            ELSE [sel EXCEPT !.open = TRUE, !.search = <<>>,
                             !.list = RenderedList(store, names, lang)]
  /\ UNCHANGED <<location, dataState, store, loads, i18nState, lang, names, pc,
                 page, dom, title, _econCharts, liveCharts, earlyRead, lastQuery,
                 errorVisible, rerendered>>

\* _outsideClick: a click that reaches the document, inside the panel or
\* outside both the panel and the button.
DocumentClick(inPanel) ==
  /\ sel.inited
  /\ sel' = IF ~inPanel THEN Closed(sel) ELSE sel
  /\ UNCHANGED <<location, dataState, store, loads, i18nState, lang, names, pc,
                 page, dom, title, _econCharts, liveCharts, earlyRead, lastQuery,
                 errorVisible, rerendered>>

\* _onKey
KeyDown(key) ==
  /\ sel.inited
  /\ sel' = IF key = "Escape" THEN Closed(sel) ELSE sel
  /\ UNCHANGED <<location, dataState, store, loads, i18nState, lang, names, pc,
                 page, dom, title, _econCharts, liveCharts, earlyRead, lastQuery,
                 errorVisible, rerendered>>

\* The user edits the search input of the open panel: _filter.
SearchInput(q) ==
  /\ sel.inited
  /\ sel.open
  /\ sel' = [sel EXCEPT !.search = q, !.list = FilteredList(sel.list, q)]
  /\ UNCHANGED <<location, dataState, store, loads, i18nState, lang, names, pc,
                 page, dom, title, _econCharts, liveCharts, earlyRead, lastQuery,
                 errorVisible, rerendered>>

\* _rebuild: the gpb-lang-change listener of the selector.
Rebuilt(s) == [s EXCEPT !.list = RenderedList(store, names, lang')]

(***************************************************************************)
(* I18n switches to language l and dispatches gpb-lang-change: every        *)
(* registered listener runs.                                               *)
(***************************************************************************)
LangChange(l) ==
  /\ i18nState = "ready"
  /\ lang' = l
  /\ IF pc = "listening" THEN LangChangeListener
     ELSE UNCHANGED <<dataState, store, loads, dom, title, _econCharts, liveCharts,
                      earlyRead, rerendered>>
  /\ sel' = IF sel.inited THEN Rebuilt(sel) ELSE sel
  /\ UNCHANGED <<location, i18nState, names, pc, page, lastQuery, errorVisible>>

\* A query made on the facade directly, at any time: NotInitializedError
\* until Data.init completed, data afterwards.
FacadeQuery ==
  /\ lastQuery' = IF dataState = "ready" THEN "data" ELSE "NotInitializedError"
  /\ lastQuery' # lastQuery
  /\ UNCHANGED <<location, dataState, store, loads, i18nState, lang, names, pc,
                 page, dom, title, _econCharts, liveCharts, sel, earlyRead,
                 errorVisible, rerendered>>

(***************************************************************************)
(* The page as a whole.                                                    *)
(***************************************************************************)
Next ==
  \/ DOMContentLoaded
  \/ DataInitResolve(PageStores)
  \/ DataInitReject
  \/ HandlerAfterData
  \/ HandlerRejected
  \/ I18nInitResolve
  \/ HandlerRender
  \/ \E l \in Langs : LangChange(l)
  \/ SelectorInit
  \/ Toggle
  \/ \E inPanel \in BOOLEAN : DocumentClick(inPanel)
  \/ \E key \in {"Escape", "a"} : KeyDown(key)
  \/ \E q \in SearchVals : SearchInput(q)
  \/ FacadeQuery

Spec == Init /\ [][Next]_vars

(***************************************************************************)
(* The page over the datasets that exercise the aggregates: the scores,    *)
(* the politics records and the economics records vary; the failure of the *)
(* load and the clicks and keys on the selector are left aside.            *)
(***************************************************************************)
NextAggregates ==
  \/ DOMContentLoaded
  \/ DataInitResolve(AggregateStores)
  \/ HandlerAfterData
  \/ I18nInitResolve
  \/ HandlerRender
  \/ \E l \in Langs : LangChange(l)
  \/ SelectorInit

InitAggregates == InitAt(AggregateLocations)

SpecAggregates == InitAggregates /\ [][NextAggregates]_vars

(***************************************************************************)
(* The index page over the datasets that vary the forms of government.     *)
(***************************************************************************)
GovernanceLocations == {[path |-> <<"index.html">>, id |-> "", chart |-> TRUE]}

NextGovernance ==
  \/ DOMContentLoaded
  \/ DataInitResolve(SystemStores)
  \/ HandlerAfterData
  \/ I18nInitResolve
  \/ HandlerRender
  \/ \E l \in Langs : LangChange(l)

InitGovernance == InitAt(GovernanceLocations)

SpecGovernance == InitGovernance /\ [][NextGovernance]_vars

(***************************************************************************)
(* Properties.                                                             *)
(***************************************************************************)
\* r is sum / n rounded to the nearest integer, a half rounding up.
IsRoundedMean(r, sum, n) == 2 * r * n - n <= 2 * sum /\ 2 * sum < 2 * r * n + n

\* r is in 0..100 and is the rounded mean of the scores c has, 0 without any.
IsOverallOf(r, c) ==
  LET n == Cardinality(DOMAIN c.scores)
  IN /\ r \in 0..100
     /\ IF n = 0 THEN r = 0 ELSE IsRoundedMean(r, SumOver(c.scores, DOMAIN c.scores), n)

CountryOf(id) == getCountry(store, id)[1]
Shows(el, kind) == el \in DOMAIN dom /\ dom[el].kind = kind

\* C1: for every country of the store the overall score lies in 0..100 and
\* is the mean of the pillar scores the country has, rounded to the nearest
\* integer, and exactly 0 for a country without scores; the country page
\* and the badges of the selector show that value.
C1_OverallScore ==
  /\ dataState = "ready" =>
       \A i \in 1..Len(store.countries) :
          IsOverallOf(getOverallScore(store.countries[i]), store.countries[i])
  /\ Shows("country-content", "country") =>
       IsOverallOf(dom["country-content"].main.overall, CountryOf(location.id))
  /\ \A i \in 1..Len(sel.list) : IsOverallOf(sel.list[i].score, CountryOf(sel.list[i].id))

\* The country page shows 50 for a country with the scores 0 and 99, and
\* the selector lists a country without scores with the badge 0.
C1_Witness ==
  /\ Shows("country-content", "country")
  /\ CountryOf(location.id).scores = [p \in PillarSet |-> IF p = "governance" THEN 0 ELSE 99]
  /\ dom["country-content"].main.overall = 50
  /\ \E i \in 1..Len(sel.list) :
        CountryOf(sel.list[i].id).scores = EmptyFn /\ sel.list[i].score = 0

\* The entries in ranking order: one per country, scores never increasing,
\* equal scores in ascending order of name.
IsRanked(r) ==
  /\ Len(r) = Len(store.countries)
  /\ \A i \in 1..Len(store.countries) :
        Cardinality({j \in 1..Len(r) : r[j].id = store.countries[i].id}) = 1
  /\ \A j \in 1..Len(r) :
        /\ r[j].score = getOverallScore(CountryOf(r[j].id))
        /\ r[j].name = getCountryName(CountryOf(r[j].id), names, lang)
  /\ \A j \in 1..(Len(r) - 1) :
        /\ r[j].score >= r[j + 1].score
        /\ r[j].score = r[j + 1].score => localeCompare(r[j].name, r[j + 1].name) <= 0

\* C2: ranking('overall') has exactly one entry per country of the store,
\* its scores never increase from one entry to the next, and entries with
\* equal scores are in ascending order of localized name; the pillar page
\* lists the countries in that order and the country page shows the
\* country's place in it out of the number of countries.
C2_OverallRanking ==
  /\ (dataState = "ready" /\ i18nState = "ready") =>
       IsRanked(getRanking(store, "overall", names, lang))
  /\ (Shows("pillar-content", "pillar") /\ PillarParam(location.id) = "overall") =>
       /\ IsRanked(dom["pillar-content"].rows)
       /\ \A j \in 1..Len(dom["pillar-content"].rows) : dom["pillar-content"].rows[j].rank = j
  /\ Shows("country-content", "country") =>
       LET shown == dom["country-content"].main
           mine == getOverallScore(CountryOf(location.id))
           above == {i \in 1..Len(store.countries) :
                       getOverallScore(store.countries[i]) > mine}
           notBelow == {i \in 1..Len(store.countries) :
                          getOverallScore(store.countries[i]) >= mine}
       IN /\ shown.ranked = Len(store.countries)
          /\ Cardinality(above) < shown.rank
          /\ shown.rank <= Cardinality(notBelow)

\* The pillar page ranks two countries with the same overall score, and the
\* name puts the country declared second first.
C2_Witness ==
  /\ Shows("pillar-content", "pillar")
  /\ PillarParam(location.id) = "overall"
  /\ Len(dom["pillar-content"].rows) = 2
  /\ dom["pillar-content"].rows[1].id = "c2"
  /\ dom["pillar-content"].rows[1].score = dom["pillar-content"].rows[2].score
  /\ dom["pillar-content"].rows[1].score > 0

\* C3: for every pillar, the global average is the rounded mean of the
\* pillar's score over the countries that have a score for it, and 0 for a
\* pillar no country scores; the cards of the index page show that value.
C3_GlobalAverages ==
  LET IsAvgOf(r, p) ==
        LET with == {i \in 1..Len(store.countries) : p \in DOMAIN store.countries[i].scores}
            sc == [i \in with |-> store.countries[i].scores[p]]
        IN IF with = {} THEN r = 0
           ELSE IsRoundedMean(r, SumOver(sc, with), Cardinality(with))
      CardsOk(el, kind) ==
        Shows(el, kind) =>
          /\ Len(dom[el].cards) = Len(store.pillars)
          /\ \A i \in 1..Len(dom[el].cards) :
                /\ dom[el].cards[i].id = store.pillars[i]
                /\ IsAvgOf(dom[el].cards[i].avg, store.pillars[i])
  IN /\ dataState = "ready" =>
          /\ DOMAIN getGlobalAverages(store) = PillarSet
          /\ \A p \in PillarSet : IsAvgOf(getGlobalAverages(store)[p], p)
     /\ CardsOk("overview-cards", "overview_cards")
     /\ CardsOk("pillar-cards", "pillar_cards")

\* The cards show 99 for governance, which one of two countries scores, and
\* 0 for security, which no country scores.
C3_Witness ==
  /\ Shows("pillar-cards", "pillar_cards")
  /\ Len(store.countries) = 2
  /\ store.countries[1].scores = [p \in {"governance"} |-> 99]
  /\ store.countries[2].scores = EmptyFn
  /\ dom["pillar-cards"].cards[1] = [id |-> "governance", avg |-> 99]
  /\ dom["pillar-cards"].cards[2] = [id |-> "security", avg |-> 0]

\* C4: the regime distribution of the governance bar has a count for each
\* of the four regime categories, and the four counts add up to the number
\* of politics records of the store.
C4_RegimeDistribution ==
  Shows("governance-bar", "governance") =>
    LET shown == dom["governance-bar"].regimes
    IN /\ [i \in 1..Len(shown) |-> shown[i].regime] = RegimeKeys
       /\ SumSeq([i \in 1..Len(shown) |-> shown[i].count])
            = Cardinality(DOMAIN store.politics)
       /\ \A i \in 1..Len(shown) :
             shown[i].count =
               Cardinality({id \in DOMAIN store.politics :
                              store.politics[id].regime = shown[i].regime})

\* The bar counts two records of the same regime.
C4_Witness ==
  /\ Shows("governance-bar", "governance")
  /\ Cardinality(DOMAIN store.politics) = 2
  /\ \E i \in 1..4 : dom["governance-bar"].regimes[i].count = 2

\* The store without the countries that have no economics record.
WithoutRecordless(s) ==
  LET keep == {i \in 1..Len(s.countries) : s.countries[i].id \in DOMAIN s.economics}
      RECURSIVE Kept(_)
      Kept(n) == IF n = 0 THEN <<>>
                 ELSE IF n \in keep THEN Append(Kept(n - 1), s.countries[n])
                 ELSE Kept(n - 1)
  IN [s EXCEPT !.countries = Kept(Len(s.countries))]

\* C7: the economic aggregates of the index page are computed over the
\* countries that have an economics record only: the total is the sum over
\* the records, each mean divides by the number of records, and the bar is
\* the one of the store without its record-less countries.
C7_EconomicAggregates ==
  Shows("global-econ-bar", "global_econ") =>
    LET recs == {id \in DOMAIN store.economics : getCountry(store, id) # <<>>}
        n == Cardinality(recs)
        sum(f(_)) == SumOver([id \in recs |-> f(store.economics[id])], recs)
        bar == dom["global-econ-bar"]
    IN /\ n > 0
       /\ bar.gdp_total = fmtT(sum(LAMBDA e : e.gdp))
       /\ IsRoundedMean(bar.avg_inflation, sum(LAMBDA e : e.inflation), n)
       /\ IsRoundedMean(bar.avg_unemployment, sum(LAMBDA e : e.unemployment), n)
       /\ IsRoundedMean(bar.avg_debt, sum(LAMBDA e : e.public_debt_pct), n)
       /\ \E r \in 0..2000 :
             /\ IsRoundedMean(r, sum(LAMBDA e : e.gdp_per_capita), n)
             /\ bar.avg_gdp_capita = fmtK(r)
       /\ bar = renderGlobalEconBar(WithoutRecordless(store), names, lang)

\* The bar shows the aggregates of a store of two countries, one of them
\* without a record.
C7_Witness ==
  /\ Shows("global-econ-bar", "global_econ")
  /\ Len(store.countries) = 2
  /\ Cardinality(DOMAIN store.economics) = 1
  /\ dom["global-econ-bar"].avg_inflation \in {25, 30}

C6_LoadFailureShown ==
  pc = "rejected" => (dom = InitialDom(location) /\ ~sel.inited /\ errorVisible)

\* What the list of the selector shows of the countries, in order.
ListValues(list) ==
  [i \in 1..Len(list) |-> [id |-> list[i].id, name |-> list[i].name, score |-> list[i].score]]

C9_StoreWriteOnce ==
  /\ [](loads <= 1)
  /\ [][dataState = "ready" =>
          (store' = store /\ loads' = loads /\ dataState' = "ready")]_vars

\* The loaded store has been rendered again on a language change and read by
\* the open selector.
C9_Witness ==
  /\ dataState = "ready"
  /\ loads = 1
  /\ Len(store.countries) = 2
  /\ rerendered
  /\ sel.inited
  /\ sel.open
  /\ sel.search # <<>>

\* C10: rendering again on a language change is idempotent: whatever the
\* number of gpb-lang-change events, the page is what one render in the
\* active language makes of the document as served, and the page kind
\* rendered is the one detected from the location at startup.
C10_RerenderIdempotent ==
  pc = "listening" =>
    /\ page = detectPage(location.path)
    /\ [dom |-> dom, title |-> title, charts |-> _econCharts, live |-> liveCharts]
         = Rendered(page, InitialDom(location), Static, <<>>, 0, lang)
    /\ \A el \in DOMAIN dom \ PageContainers(page) : dom[el] = Static

\* The country page, with its dashboard and charts, after it was rendered
\* again in French.
C10_Witness ==
  /\ rerendered
  /\ pc = "listening"
  /\ page = "country"
  /\ lang = "fr"
  /\ Shows("country-content", "country")
  /\ dom["country-content"].main.lang = "fr"
  /\ dom["country-content"].dashboard.kind = "econ_dashboard"
  /\ liveCharts = 2

\* r has one entry per country of the store, each with the score the
\* ranking by pillarId gives the country: its overall score for "overall",
\* otherwise its score for that pillar, 0 when it has none.
IsRankingBy(r, pillarId) ==
  /\ Len(r) = Len(store.countries)
  /\ \A i \in 1..Len(store.countries) :
        Cardinality({j \in 1..Len(r) : r[j].id = store.countries[i].id}) = 1
  /\ \A j \in 1..Len(r) :
        LET c == CountryOf(r[j].id)
        IN IF pillarId = "overall" THEN IsOverallOf(r[j].score, c)
           ELSE IF pillarId \in DOMAIN c.scores THEN r[j].score = c.scores[pillarId]
           ELSE r[j].score = 0

\* C11: ranking(pillarId) scores every country with its overall score when
\* pillarId is "overall" and otherwise with its score for that pillar, 0
\* for a country without one, and every country is in the ranking exactly
\* once; the table of the pillar page is the ranking by the id parameter.
C11_PillarRanking ==
  /\ (dataState = "ready" /\ i18nState = "ready") =>
       \A pillarId \in PillarSet \cup {"overall", "zz"} :
          IsRankingBy(getRanking(store, pillarId, names, lang), pillarId)
  /\ Shows("pillar-content", "pillar") =>
       IsRankingBy(dom["pillar-content"].rows, PillarParam(location.id))

\* The pillar page ranks by security a country that has a governance score
\* only: its row shows 0, below a country with a security score.
C11_Witness ==
  /\ Shows("pillar-content", "pillar")
  /\ location.id = "security"
  /\ Len(dom["pillar-content"].rows) = 2
  /\ dom["pillar-content"].rows[1].score = 99
  /\ dom["pillar-content"].rows[2].score = 0
  /\ CountryOf(dom["pillar-content"].rows[2].id).scores = [p \in {"governance"} |-> 100]

\* The ids no record of the store is filed under.
UnknownIds(known) == ({"", "zz"} \cup {IdNames[i] : i \in 1..Len(IdNames)}) \ known

\* C12: missing optional data is never an error: getCountry, getPillar,
\* getEconomics and getPolitics answer an unknown id with the explicit
\* not-found result, no render fails once the dataset is loaded, the
\* country page shows the not-found message for an unknown country id, and
\* the economic dashboard of a country without EconomicsRecord is empty and
\* has no chart.
C12_MissingDataNotAnError ==
  /\ dataState = "ready" =>
       /\ \A id \in UnknownIds(CountryIdsOf(store)) : getCountry(store, id) = <<>>
       /\ \A id \in UnknownIds(PillarSet) : getPillar(store, id) = <<>>
       /\ \A id \in UnknownIds(DOMAIN store.economics) : getEconomics(store, id) = <<>>
       /\ \A id \in UnknownIds(DOMAIN store.politics) : getPolitics(store, id) = <<>>
  /\ pc = "rejected" => dataState = "failed"
  /\ (pc = "listening" /\ page = "country" /\ "country-content" \in DOMAIN dom) =>
       IF location.id \notin CountryIdsOf(store)
       THEN /\ dom["country-content"] = [kind |-> "not_found", lang |-> lang]
            /\ title = Static
            /\ _econCharts = <<>>
       ELSE /\ Shows("country-content", "country")
            /\ location.id \notin DOMAIN store.economics =>
                 /\ dom["country-content"].dashboard = [kind |-> "empty"]
                 /\ _econCharts = <<>>
                 /\ liveCharts = 0

\* The page of a country that has no EconomicsRecord was rendered, and
\* rendered again, with an empty dashboard.
C12_Witness ==
  /\ pc = "listening"
  /\ rerendered
  /\ Shows("country-content", "country")
  /\ location.id \in CountryIdsOf(store)
  /\ getEconomics(store, location.id) = <<>>
  /\ getPolitics(store, location.id) = <<>>
  /\ dom["country-content"].dashboard.kind = "empty"

\* C13: the governance bar shows the top 3 forms of government: the tags
\* are the 3 systems that most PoliticsRecords name (all of them when there
\* are fewer than 3), in descending order of count, each with its count.
C13_TopThreeSystems ==
  Shows("governance-bar", "governance") =>
    LET shown == dom["governance-bar"].systems
        entries == PoliticsEntries(store)
        CountOf(k) == Cardinality({i \in 1..Len(entries) : entries[i].system = k})
        all == {entries[i].system : i \in 1..Len(entries)}
        tagged == {shown[i].system : i \in 1..Len(shown)}
    IN /\ Len(shown) = IF Cardinality(all) < 3 THEN Cardinality(all) ELSE 3
       /\ Cardinality(tagged) = Len(shown)
       /\ tagged \subseteq all
       /\ \A i \in 1..Len(shown) : shown[i].count = CountOf(shown[i].system)
       /\ \A i \in 1..(Len(shown) - 1) : shown[i].count >= shown[i + 1].count
       /\ \A k \in all \ tagged : \A i \in 1..Len(shown) : CountOf(k) <= shown[i].count

\* C14: the average security and governance scores the peace bar shows are
\* globalAverages()['security'] and globalAverages()['governance'],
\* whatever the dataset, also when countries have no score for them.
C14_PeaceBarAverages ==
  Shows("peace-bar", "peace") =>
    /\ dom["peace-bar"].avgSecurity = getGlobalAverages(store)["security"]
    /\ dom["peace-bar"].avgGovernance = getGlobalAverages(store)["governance"]

\* C15: at every moment an entry of the selector's list is visible exactly
\* when its displayed name contains the text of the search input, compared
\* without regard to case.
C15_VisibleIffMatches ==
  sel.inited =>
    \A i \in 1..Len(sel.list) :
       sel.list[i].visible
         <=> includes(toLowerCase(sel.list[i].name), toLowerCase(sel.search))

\* C16: through every render of the country page and every render again on
\* a language change, the charts of the render before are destroyed before
\* new ones are made: _econCharts tracks at most 2 instances, one per
\* canvas, all of them alive, and no chart is alive outside the list.
C16_ChartsTracked ==
  /\ Len(_econCharts) <= 2
  /\ \A i, j \in 1..Len(_econCharts) : _econCharts[i] = _econCharts[j] => i = j
  /\ liveCharts = Len(_econCharts)
  /\ _econCharts # <<>> =>
       /\ Shows("country-content", "country")
       /\ dom["country-content"].dashboard.kind = "econ_dashboard"

\* The dashboard was rendered again on language changes and back to the
\* first language; two charts are tracked and two are alive.
C16_Witness ==
  /\ rerendered
  /\ pc = "listening"
  /\ page = "country"
  /\ location.chart
  /\ lang = "en"
  /\ Len(_econCharts) = 2
  /\ liveCharts = 2
  /\ dom["country-content"].dashboard.lang = "en"

\* C17: on the pillar page the heading tells what the table ranks by, for
\* every id parameter: under the 'all pillars' heading every row shows the
\* country's overall score, and the overall ranking is shown under that
\* heading; under a pillar's name every row shows the country's score for
\* that pillar, and the ranking by a pillar is shown under its name.
C17_HeadingMatchesRanking ==
  Shows("pillar-content", "pillar") =>
    LET id == PillarParam(location.id)
        shown == dom["pillar-content"]
    IN /\ shown.heading = "ranking.all_pillars" =>
            \A j \in 1..Len(shown.rows) :
               shown.rows[j].score = getOverallScore(CountryOf(shown.rows[j].id))
       /\ id = "overall" => shown.heading = "ranking.all_pillars"
       /\ \A p \in PillarSet :
            /\ shown.heading = p =>
                 \A j \in 1..Len(shown.rows) :
                    shown.rows[j].score = ScoreOr0(CountryOf(shown.rows[j].id), p)
            /\ id = p => shown.heading = p

\* The list holds every country of the store once, all of them visible.
ListsAllVisible(list) ==
  /\ Len(list) = Len(store.countries)
  /\ \A c \in CountryIdsOf(store) :
        Cardinality({i \in 1..Len(list) : list[i].id = c}) = 1
  /\ \A i \in 1..Len(list) :
        /\ list[i].visible
        /\ list[i].name = getCountryName(CountryOf(list[i].id), names, lang)

\* C18: the panel of the selector is open or closed and starts closed; a
\* click on the button flips it; Escape and a click outside the panel and
\* the button leave it closed; a click inside the panel, another key and
\* typing in the search input leave it as it is; and whenever it goes from
\* closed to open the search input is emptied and the list is rebuilt with
\* every country visible.
C18_PanelStateMachine ==
  /\ [](~sel.inited => ~sel.open)
  /\ [][(~sel.inited /\ sel'.inited) => ~sel'.open]_vars
  /\ [][Toggle => sel'.open = ~sel.open]_vars
  /\ [][(KeyDown("Escape") \/ DocumentClick(FALSE)) => ~sel'.open]_vars
  /\ [][(DocumentClick(TRUE) \/ KeyDown("a") \/ \E q \in SearchVals : SearchInput(q))
          => sel'.open = sel.open]_vars
  /\ [][(~sel.open /\ sel'.open) =>
          (sel'.search = <<>> /\ ListsAllVisible(sel'.list))]_vars

\* The panel was opened with the button and stayed open while the user
\* typed a text that hides an entry of the list.
C18_Witness ==
  /\ sel.inited
  /\ sel.open
  /\ sel.search = <<"a">>
  /\ Len(sel.list) = 2
  /\ \E i \in 1..Len(sel.list) : ~sel.list[i].visible
  /\ \E i \in 1..Len(sel.list) : sel.list[i].visible

=============================================================================
